---- MODULE Spec2Model ----
(***************************************************************************)
(* Granite math SDK: the lending formulas of src/src/modules, as operators *)
(* over exact rational numbers, and the calls into them as actions.        *)
(*                                                                         *)
(* Numbers.  A JavaScript number is modelled as a pair <<n, d>>:           *)
(*   d > 0          the rational n/d in lowest terms,                      *)
(*   <<1, 0>>       Infinity,   <<-1, 0>>  -Infinity,   <<0, 0>>  NaN,     *)
(*   <<0, -1>>      undefined (an optional field that is absent).          *)
(* Arithmetic is exact on rationals (the data model's real numbers) and    *)
(* follows IEEE-754 for division by zero and for NaN and the infinities.   *)
(* Rounding of the 64-bit format and the sign of zero are not modelled.    *)
(***************************************************************************)
EXTENDS Integers, Sequences, FiniteSets, TLC

VARIABLES pool, account, liquidity, args, op, result

vars == <<pool, account, liquidity, args, op, result>>

(***************************************************************************)
(* Bounds of the model's input sets.                                       *)
(***************************************************************************)
MaxShares == 3
MaxAmount == 2
MaxDelta == 2
MaxFuture == 1
MaxDecimals == 1
MaxLiquidity == 4
MaxDebt == 2
MaxUrSteps == 6
MaxSnapshots == 3
MaxTime == 2
MaxLeverageSteps == 6
MaxDrops == 12
MaxLtvSteps == 40

(***************************************************************************)
(* JavaScript number arithmetic.                                           *)
(***************************************************************************)
RECURSIVE Gcd(_, _)
Gcd(a, b) == IF b = 0 THEN a ELSE Gcd(b, a % b)

Abs(i) == IF i < 0 THEN -i ELSE i

Sign(i) == IF i < 0 THEN -1 ELSE IF i > 0 THEN 1 ELSE 0

\* the rational n/d (d # 0) in lowest terms with a positive denominator
Q(n, d) ==
  LET g == Gcd(Abs(n), Abs(d))
  IN  <<(Sign(d) * n) \div g, Abs(d) \div g>>

NaN == <<0, 0>>
Infinity == <<1, 0>>
undefined == <<0, -1>>
Zero == <<0, 1>>
One == <<1, 1>>

\* undefined coerces to NaN in arithmetic
IsNaN(x) == x[1] = 0 /\ x[2] <= 0

IsFinite(x) == x[2] > 0

Neg(x) == IF IsNaN(x) THEN NaN ELSE <<-x[1], x[2]>>

Add(x, y) ==
  IF IsNaN(x) \/ IsNaN(y) THEN NaN
  ELSE IF x[2] = 0 THEN (IF y[2] = 0 /\ y[1] # x[1] THEN NaN ELSE x)
  ELSE IF y[2] = 0 THEN y
  ELSE LET g == Gcd(x[2], y[2])
       IN  Q(x[1] * (y[2] \div g) + y[1] * (x[2] \div g), (x[2] \div g) * y[2])

Sub(x, y) == Add(x, Neg(y))

Mul(x, y) ==
  IF IsNaN(x) \/ IsNaN(y) THEN NaN
  ELSE IF x[2] = 0 \/ y[2] = 0
       THEN (IF x[1] = 0 \/ y[1] = 0 THEN NaN ELSE <<Sign(x[1]) * Sign(y[1]), 0>>)
  ELSE LET g1 == Gcd(Abs(x[1]), y[2])
           g2 == Gcd(Abs(y[1]), x[2])
       IN  <<(x[1] \div g1) * (y[1] \div g2), (x[2] \div g2) * (y[2] \div g1)>>

Div(x, y) ==
  IF IsNaN(x) \/ IsNaN(y) THEN NaN
  ELSE IF y[2] = 0 THEN (IF x[2] = 0 THEN NaN ELSE Zero)
  ELSE IF y[1] = 0 THEN (IF x[1] = 0 THEN NaN ELSE <<Sign(x[1]), 0>>)
  ELSE Mul(x, <<Sign(y[1]) * y[2], Abs(y[1])>>)

\* x < y; every comparison with NaN is false
Lt(x, y) ==
  /\ ~IsNaN(x)
  /\ ~IsNaN(y)
  /\ x # y
  /\ IF x[2] = 0 THEN x[1] < 0
     ELSE IF y[2] = 0 THEN y[1] > 0
     ELSE x[1] * y[2] < y[1] * x[2]

\* x == y and x === y on numbers
Eq(x, y) == ~IsNaN(x) /\ ~IsNaN(y) /\ x = y

Le(x, y) == Eq(x, y) \/ Lt(x, y)

MathMax(x, y) == IF IsNaN(x) \/ IsNaN(y) THEN NaN ELSE IF Lt(x, y) THEN y ELSE x

MathMin(x, y) == IF IsNaN(x) \/ IsNaN(y) THEN NaN ELSE IF Lt(y, x) THEN y ELSE x

MathFloor(x) == IF IsFinite(x) THEN <<x[1] \div x[2], 1>> ELSE x

\* x ** k for an integer k >= 0 (anything ** 0 is 1)
RECURSIVE Pow(_, _)
Pow(x, k) == IF k = 0 THEN One ELSE Mul(x, Pow(x, k - 1))

\* the condition of `if (!x)`: absent, zero and NaN are all falsy
Falsy(x) == x = undefined \/ IsNaN(x) \/ x = Zero

\* the outcome of a call that may throw
Return(v) == [kind |-> "return", value |-> v, error |-> ""]

Throw(msg) == [kind |-> "throw", value |-> NaN, error |-> msg]

None == [kind |-> "none", value |-> NaN, error |-> ""]

(***************************************************************************)
(* modules/borrow: utilization, the kinked rate curve and compounding.     *)
(***************************************************************************)
secondsInAYear == 365 * 24 * 60 * 60

\* mutant: the utilization of a pool without assets is not defaulted
computeUtilizationRate_NoGuard(openInterest, totalAssets) == Div(openInterest, totalAssets)

computeUtilizationRate(openInterest, totalAssets) ==
  IF Eq(totalAssets, Zero) THEN Zero ELSE Div(openInterest, totalAssets)

\* mutant: the second segment does not start where the first one ends
annualizedAPR_Gap(ur, irParams) ==
  IF Lt(ur, irParams.urKink)
  THEN Add(Mul(irParams.slope1, ur), irParams.baseIR)
  ELSE Add(Mul(irParams.slope2, Sub(ur, irParams.urKink)), irParams.baseIR)

annualizedAPR(ur, irParams) ==
  IF Lt(ur, irParams.urKink)
  THEN Add(Mul(irParams.slope1, ur), irParams.baseIR)
  ELSE Add(Add(Mul(irParams.slope2, Sub(ur, irParams.urKink)),
               Mul(irParams.slope1, irParams.urKink)),
           irParams.baseIR)

\* (1 + ir / secondsInAYear) ** timeDelta
GrowthFactor(openInterest, totalAssets, irParams, timeDelta) ==
  LET ur == computeUtilizationRate(openInterest, totalAssets)
      ir == annualizedAPR(ur, irParams)
  IN  Pow(Add(One, Div(ir, <<secondsInAYear, 1>>)), timeDelta)

calculateDueInterest(debtAmt, openInterest, totalAssets, irParams, timeDelta) ==
  Mul(debtAmt, GrowthFactor(openInterest, totalAssets, irParams, timeDelta))

\* mutant: simple interest, rate * time, instead of per-second compounding
compoundedInterest_Simple(debtAmt, openInterest, totalAssets, irParams, timeDelta) ==
  LET ur == computeUtilizationRate(openInterest, totalAssets)
      ir == annualizedAPR(ur, irParams)
  IN  Mul(debtAmt, Mul(Div(ir, <<secondsInAYear, 1>>), <<timeDelta, 1>>))

compoundedInterest(debtAmt, openInterest, totalAssets, irParams, timeDelta) ==
  Mul(debtAmt, Sub(GrowthFactor(openInterest, totalAssets, irParams, timeDelta), One))

convertDebtAssetsToShares(debtAssets, totalDebtShares, totalAssets, openInterest, protocolReservePercentage, irParams, timeDelta) ==
  IF Eq(totalAssets, Zero) THEN Zero
  ELSE LET corretedOpenInterest ==
             compoundedInterest(openInterest, openInterest, totalAssets, irParams, timeDelta)
           accruedInterest ==
             Mul(corretedOpenInterest, Sub(One, protocolReservePercentage))
       IN  Div(Mul(debtAssets, totalDebtShares), Add(accruedInterest, openInterest))

\* mutant: the debt share price ignores the interest accrued since the last update
convertDebtSharesToAssets_NoInterest(debtShares, openInterest, totalDebtShares, totalAssets, irParams, timeDelta) ==
  IF Eq(totalDebtShares, Zero) THEN Zero
  ELSE Div(Mul(debtShares, openInterest), totalDebtShares)

convertDebtSharesToAssets(debtShares, openInterest, totalDebtShares, totalAssets, irParams, timeDelta) ==
  IF Eq(totalDebtShares, Zero) THEN Zero
  ELSE LET accruedInterest ==
             compoundedInterest(openInterest, openInterest, totalAssets, irParams, timeDelta)
       IN  Div(Mul(debtShares, Add(openInterest, accruedInterest)), totalDebtShares)

(***************************************************************************)
(* modules/lp: LP share conversions.                                       *)
(***************************************************************************)
convertLpAssetsToShares(assets, totalShares, totalAssets, openInterest, protocolReservePercentage, irParams, timeDelta) ==
  IF Eq(totalAssets, Zero) THEN Zero
  ELSE LET corretedOpenInterest ==
             compoundedInterest(openInterest, openInterest, totalAssets, irParams, timeDelta)
           accruedInterest ==
             Mul(corretedOpenInterest, Sub(One, protocolReservePercentage))
       IN  Div(Mul(assets, totalShares), Add(accruedInterest, totalAssets))

\* mutant: the share price counts the whole interest, reserve included
convertLpSharesToAssets_NoReserve(shares, totalShares, totalAssets, openInterest, protocolReservePercentage, irParams, timeDelta) ==
  IF Eq(totalShares, Zero) THEN Zero
  ELSE LET corretedOpenInterest ==
             compoundedInterest(openInterest, openInterest, totalAssets, irParams, timeDelta)
       IN  Div(Mul(shares, Add(corretedOpenInterest, totalAssets)), totalShares)

convertLpSharesToAssets(shares, totalShares, totalAssets, openInterest, protocolReservePercentage, irParams, timeDelta) ==
  IF Eq(totalShares, Zero) THEN Zero
  ELSE LET corretedOpenInterest ==
             compoundedInterest(openInterest, openInterest, totalAssets, irParams, timeDelta)
           accruedInterest ==
             Mul(corretedOpenInterest, Sub(One, protocolReservePercentage))
       IN  Div(Mul(shares, Add(accruedInterest, totalAssets)), totalShares)

(***************************************************************************)
(* modules/liquidation.                                                    *)
(***************************************************************************)
\* allCollaterals.reduce(...): the first collateral without liquidationLTV throws
RECURSIVE TotalSecuredValue(_, _, _)
TotalSecuredValue(allCollaterals, i, sum) ==
  IF i > Len(allCollaterals) THEN Return(sum)
  ELSE LET coll == allCollaterals[i]
       IN  IF Falsy(coll.liquidationLTV)
           THEN Throw("LiquidationLTV is not defined for one or more collaterals")
           ELSE TotalSecuredValue(allCollaterals, i + 1,
                  Add(sum, Mul(Mul(coll.amount, coll.price), coll.liquidationLTV)))

\* mutant: only the target collateral secures the debt (the formula of the
\* single-collateral revision)
liquidatorMaxRepayAmount_SingleCollateral(debtShares, openInterest, totalDebtShares, totalAssets, irParams, timeDelta, collateral, allCollaterals) ==
  IF Falsy(collateral.liquidationLTV) \/ Falsy(collateral.liquidationPremium)
  THEN Throw("Liquidation LTV or liquidation premium are not defined")
  ELSE LET debtAssets == convertDebtSharesToAssets(debtShares, openInterest,
                           totalDebtShares, totalAssets, irParams, timeDelta)
           totalSecuredValue == TotalSecuredValue(<<collateral>>, 1, Zero)
           denominator ==
             Sub(One, Mul(Add(One, collateral.liquidationPremium), collateral.liquidationLTV))
           maxRepayCalc == Div(Sub(debtAssets, totalSecuredValue.value), denominator)
           collateralValue == Mul(collateral.amount, collateral.price)
           collateralCap == Div(collateralValue, Add(One, collateral.liquidationPremium))
       IN  IF totalSecuredValue.kind = "throw" THEN totalSecuredValue
           ELSE Return(MathMax(MathMin(maxRepayCalc, collateralCap), Zero))

\* mutant: the numerator is taken with the wrong sign
liquidatorMaxRepayAmount_Flipped(debtShares, openInterest, totalDebtShares, totalAssets, irParams, timeDelta, collateral, allCollaterals) ==
  IF Falsy(collateral.liquidationLTV) \/ Falsy(collateral.liquidationPremium)
  THEN Throw("Liquidation LTV or liquidation premium are not defined")
  ELSE LET debtAssets == convertDebtSharesToAssets(debtShares, openInterest,
                           totalDebtShares, totalAssets, irParams, timeDelta)
           totalSecuredValue == TotalSecuredValue(allCollaterals, 1, Zero)
           denominator ==
             Sub(One, Mul(Add(One, collateral.liquidationPremium), collateral.liquidationLTV))
           maxRepayCalc == Div(Sub(totalSecuredValue.value, debtAssets), denominator)
           collateralValue == Mul(collateral.amount, collateral.price)
           collateralCap == Div(collateralValue, Add(One, collateral.liquidationPremium))
       IN  IF totalSecuredValue.kind = "throw" THEN totalSecuredValue
           ELSE Return(MathMax(MathMin(maxRepayCalc, collateralCap), Zero))

liquidatorMaxRepayAmount(debtShares, openInterest, totalDebtShares, totalAssets, irParams, timeDelta, collateral, allCollaterals) ==
  IF Falsy(collateral.liquidationLTV) \/ Falsy(collateral.liquidationPremium)
  THEN Throw("Liquidation LTV or liquidation premium are not defined")
  ELSE LET debtAssets == convertDebtSharesToAssets(debtShares, openInterest,
                           totalDebtShares, totalAssets, irParams, timeDelta)
           totalSecuredValue == TotalSecuredValue(allCollaterals, 1, Zero)
           denominator ==
             Sub(One, Mul(Add(One, collateral.liquidationPremium), collateral.liquidationLTV))
           maxRepayCalc == Div(Sub(debtAssets, totalSecuredValue.value), denominator)
           collateralValue == Mul(collateral.amount, collateral.price)
           collateralCap == Div(collateralValue, Add(One, collateral.liquidationPremium))
       IN  IF totalSecuredValue.kind = "throw" THEN totalSecuredValue
           ELSE Return(MathMax(MathMin(maxRepayCalc, collateralCap), Zero))

calculateCollateralToTransfer(repayAmount, collateral) ==
  IF Falsy(collateral.liquidationPremium)
  THEN Throw("Liquidation premium is not defined")
  ELSE LET liquidationReward == Mul(repayAmount, collateral.liquidationPremium)
       IN  Return(Div(Add(repayAmount, liquidationReward), collateral.price))

(***************************************************************************)
(* modules/borrow: borrowing capacity and availability.                    *)
(***************************************************************************)
\* the for-of loop: the first collateral without maxLTV throws
RECURSIVE BorrowCapacityLoop(_, _, _)
BorrowCapacityLoop(collaterals, i, sum) ==
  IF i > Len(collaterals) THEN Return(sum)
  ELSE LET c == collaterals[i]
       IN  IF Falsy(c.maxLTV)
           THEN Throw("Collateral max LTV is not defined")
           ELSE BorrowCapacityLoop(collaterals, i + 1,
                  Add(sum, Mul(Mul(c.amount, c.price), c.maxLTV)))

calculateBorrowCapacity(collaterals) == BorrowCapacityLoop(collaterals, 1, Zero)

\* mutant: the reserve is not held back
protocolAvailableToBorrow_NoReserve(freeLiquidity, reserveBalance) == freeLiquidity

protocolAvailableToBorrow(freeLiquidity, reserveBalance) ==
  IF Le(freeLiquidity, reserveBalance) THEN Zero ELSE Sub(freeLiquidity, reserveBalance)

userAvailableToBorrow(collaterals, freeLiquidity, reserveBalance, currentDebt) ==
  LET protocolFreeLiquidity == protocolAvailableToBorrow(freeLiquidity, reserveBalance)
      capacity == calculateBorrowCapacity(collaterals)
  IN  IF capacity.kind = "throw" THEN capacity
      ELSE Return(MathMin(protocolFreeLiquidity,
                          MathMax(Sub(capacity.value, currentDebt), Zero)))

(***************************************************************************)
(* modules/account.                                                        *)
(***************************************************************************)
RECURSIVE TotalCollateralValueLoop(_, _, _)
TotalCollateralValueLoop(collaterals, i, total) ==
  IF i > Len(collaterals) THEN total
  ELSE TotalCollateralValueLoop(collaterals, i + 1,
         Add(total, Mul(collaterals[i].amount, collaterals[i].price)))

calculateTotalCollateralValue(collaterals) == TotalCollateralValueLoop(collaterals, 1, Zero)

calculateMaxWithdrawAmount(collateralToWithdraw, allCollaterals, debtShares, openInterest, totalDebtShares, totalAssets, irParams, timeDelta, decimals, futureDeltaSeconds) ==
  IF Falsy(collateralToWithdraw.maxLTV)
  THEN Throw("MaxLTV is not defined for the selected collateral")
  ELSE IF debtShares = Zero THEN Return(collateralToWithdraw.amount)
  ELSE LET timeDeltaFuture == timeDelta + futureDeltaSeconds
           futureDebt == convertDebtSharesToAssets(debtShares, openInterest,
                           totalDebtShares, totalAssets, irParams, timeDeltaFuture)
           requiredCollateralValue == Div(futureDebt, collateralToWithdraw.maxLTV)
           currentCollateralValue == calculateTotalCollateralValue(allCollaterals)
           excessCollateralValue == Sub(currentCollateralValue, requiredCollateralValue)
           scale == Pow(<<10, 1>>, decimals)
           maxWithdrawAmount ==
             Div(MathFloor(Mul(Div(excessCollateralValue, collateralToWithdraw.price), scale)),
                 scale)
       IN  Return(MathMax(Zero, MathMin(maxWithdrawAmount, collateralToWithdraw.amount)))

(***************************************************************************)
(* Input sets.                                                             *)
(***************************************************************************)
Nat0(k) == {<<i, 1>> : i \in 0..k}

\* a pool without interest, and a kinked curve steep enough that one second
\* of compounding multiplies the debt by 5/4 (ur = 1/4) or 3/2 (ur = 1/2)
IrParamSet ==
  { [urKink |-> Q(1, 2), baseIR |-> Zero, slope1 |-> Zero, slope2 |-> Zero],
    [urKink |-> Q(1, 2), baseIR |-> Zero, slope1 |-> <<secondsInAYear, 1>>,
     slope2 |-> <<2 * secondsInAYear, 1>>] }

\* an optional ratio field: absent, zero, or a value
RatioFields == {undefined, Zero, Q(1, 2), One}

Collateral(amount, price, maxLTV, liquidationLTV, liquidationPremium) ==
  [amount |-> amount, price |-> price, maxLTV |-> maxLTV,
   liquidationLTV |-> liquidationLTV, liquidationPremium |-> liquidationPremium]

NoPool ==
  [openInterest |-> Zero, totalAssets |-> Zero, totalDebtShares |-> Zero,
   totalShares |-> Zero, protocolReservePercentage |-> Zero,
   irParams |-> [urKink |-> Zero, baseIR |-> Zero, slope1 |-> Zero, slope2 |-> Zero],
   timeDelta |-> 0]

NoAccount ==
  [debtShares |-> Zero, collateral |-> Collateral(Zero, Zero, undefined, undefined, undefined),
   allCollaterals |-> <<>>]

NoLiquidity == [freeLiquidity |-> Zero, reserveBalance |-> Zero, currentDebt |-> Zero]

NoArgs == [none |-> TRUE]

(***************************************************************************)
(* Liquidation sizing: a liquidator sizes a repayment against one target   *)
(* collateral of a position, then computes the collateral it receives.     *)
(***************************************************************************)
LiqTargets ==
  { Collateral(a, p, Q(1, 2), l, m) :
      a \in Nat0(MaxAmount), p \in {One, <<2, 1>>}, l \in RatioFields, m \in RatioFields }

LiqOther == Collateral(One, <<2, 1>>, Q(1, 2), Q(1, 2), Q(1, 2))

LiqBroken == Collateral(One, One, Q(1, 2), undefined, Q(1, 2))

LiqLists(c) == { <<c>>, <<c, LiqOther>>, <<LiqOther, c>>, <<c, LiqBroken>>, <<LiqOther>>, <<>> }

LiqInit ==
  /\ pool \in [openInterest : {One, <<2, 1>>}, totalAssets : {<<4, 1>>},
               totalDebtShares : {Zero, <<2, 1>>}, totalShares : {Zero},
               protocolReservePercentage : {Zero}, irParams : IrParamSet,
               timeDelta : 0..MaxDelta]
  /\ \E c \in LiqTargets : \E ds \in Nat0(MaxShares) : \E l \in LiqLists(c) :
       account = [debtShares |-> ds, collateral |-> c, allCollaterals |-> l]
  /\ liquidity = NoLiquidity
  /\ args = NoArgs
  /\ op = "init"
  /\ result = None

DebtAssets ==
  convertDebtSharesToAssets(account.debtShares, pool.openInterest, pool.totalDebtShares,
                            pool.totalAssets, pool.irParams, pool.timeDelta)

CallLiquidatorMaxRepayAmount ==
  /\ op = "init"
  /\ op' = "liquidatorMaxRepayAmount"
  /\ result' = liquidatorMaxRepayAmount(account.debtShares, pool.openInterest,
                 pool.totalDebtShares, pool.totalAssets, pool.irParams, pool.timeDelta,
                 account.collateral, account.allCollaterals)
  /\ UNCHANGED <<pool, account, liquidity, args>>

\* the documented use: if (amt > 0) calculateCollateralToTransfer(amt, collateral);
\* here the amount is passed on whatever it is
CallCalculateCollateralToTransfer ==
  /\ op = "liquidatorMaxRepayAmount"
  /\ result.kind = "return"
  /\ op' = "calculateCollateralToTransfer"
  /\ args' = [repayAmount |-> result.value]
  /\ result' = calculateCollateralToTransfer(result.value, account.collateral)
  /\ UNCHANGED <<pool, account, liquidity>>

LiqNext == CallLiquidatorMaxRepayAmount \/ CallCalculateCollateralToTransfer

SpecLiq == LiqInit /\ [][LiqNext]_vars

(***************************************************************************)
(* Claims about liquidation sizing (checked under SpecLiq).                *)
(***************************************************************************)
Repaid == op = "liquidatorMaxRepayAmount" /\ result.kind = "return"

SecuredValue == TotalSecuredValue(account.allCollaterals, 1, Zero).value

TargetListed == \E i \in 1..Len(account.allCollaterals) :
                  account.allCollaterals[i] = account.collateral

CollateralCap ==
  Div(Mul(account.collateral.amount, account.collateral.price),
      Add(One, account.collateral.liquidationPremium))

Denominator ==
  Sub(One, Mul(Add(One, account.collateral.liquidationPremium),
               account.collateral.liquidationLTV))

\* C1: whenever the debt in assets is at most the total secured value,
\* liquidatorMaxRepayAmount returns exactly 0, for every liquidationLTV in
\* (0,1] and every liquidationPremium > 0.  (Stated on the documented use: a
\* position with debt whose collateral list holds the target.)
C1_LiquidationGating ==
  ( /\ Repaid
    /\ TargetListed
    /\ Lt(Zero, DebtAssets)
    /\ Lt(Zero, account.collateral.liquidationLTV)
    /\ Le(account.collateral.liquidationLTV, One)
    /\ Lt(Zero, account.collateral.liquidationPremium)
    /\ Le(DebtAssets, SecuredValue) )
  => Eq(result.value, Zero)

\* C2: for amount >= 0, price > 0 and liquidationPremium > 0 the returned
\* amount r lies in [0, amount * price / (1 + liquidationPremium)], and the
\* collateral transferred for r is at most the amount deposited.  (Stated on
\* the documented use, as C1.)
C2_RepayWithinCollateral ==
  ( /\ TargetListed
    /\ Lt(Zero, DebtAssets)
    /\ Le(Zero, account.collateral.amount)
    /\ Lt(Zero, account.collateral.price)
    /\ Lt(Zero, account.collateral.liquidationPremium) )
  => /\ Repaid => Le(Zero, result.value) /\ Le(result.value, CollateralCap)
     /\ (op = "calculateCollateralToTransfer" /\ result.kind = "return")
          => Le(result.value, account.collateral.amount)

\* C3: liquidatorMaxRepayAmount never returns more than the position's debt
\* in assets, for every target collateral and every collateral list with
\* non-negative amounts and prices.  (Stated on the documented use, as C1.)
C3_RepayAtMostDebt ==
  (Repaid /\ TargetListed /\ Lt(Zero, DebtAssets)) => Le(result.value, DebtAssets)

\* C10: liquidatorMaxRepayAmount throws exactly when the target collateral
\* lacks liquidationLTV or liquidationPremium, or a collateral of
\* allCollaterals lacks liquidationLTV; with the fields present, whatever
\* their value, it returns a number.
C10_ThrowsExactlyWhenAbsent ==
  op = "liquidatorMaxRepayAmount"
  => ( result.kind = "throw"
       <=> \/ account.collateral.liquidationLTV = undefined
           \/ account.collateral.liquidationPremium = undefined
           \/ \E i \in 1..Len(account.allCollaterals) :
                account.allCollaterals[i].liquidationLTV = undefined )

(***************************************************************************)
(* Withdrawal: the account asks for the maximum withdrawable amount of its *)
(* first collateral and then withdraws exactly that amount.                *)
(***************************************************************************)
WithdrawTargets ==
  { Collateral(a, p, m, One, Q(1, 2)) :
      a \in Nat0(MaxAmount), p \in {Zero, One, <<2, 1>>}, m \in RatioFields }

WithdrawOthers ==
  { <<>>,
    << Collateral(<<2, 1>>, One, Q(1, 4), One, Q(1, 2)) >>,
    << Collateral(<<2, 1>>, One, One, One, Q(1, 2)) >> }

WithdrawInit ==
  /\ pool \in [openInterest : {One, <<2, 1>>}, totalAssets : {<<4, 1>>},
               totalDebtShares : {Zero, <<2, 1>>}, totalShares : {Zero},
               protocolReservePercentage : {Zero}, irParams : IrParamSet,
               timeDelta : 0..MaxDelta]
  /\ \E c \in WithdrawTargets : \E ds \in Nat0(MaxShares) : \E o \in WithdrawOthers :
       account = [debtShares |-> ds, collateral |-> c, allCollaterals |-> <<c>> \o o]
  /\ liquidity = NoLiquidity
  /\ args \in [decimals : 0..MaxDecimals, futureDeltaSeconds : 0..MaxFuture,
               safeBefore : {FALSE}]
  /\ op = "init"
  /\ result = None

\* the debt projected to timeDelta + futureDeltaSeconds
ProjectedDebt ==
  convertDebtSharesToAssets(account.debtShares, pool.openInterest, pool.totalDebtShares,
                            pool.totalAssets, pool.irParams,
                            pool.timeDelta + args.futureDeltaSeconds)

\* the borrow capacity covers the projected debt
Collateralized ==
  LET capacity == calculateBorrowCapacity(account.allCollaterals)
  IN  capacity.kind = "return" /\ Le(ProjectedDebt, capacity.value)

CallCalculateMaxWithdrawAmount ==
  /\ op = "init"
  /\ op' = "calculateMaxWithdrawAmount"
  /\ result' = calculateMaxWithdrawAmount(account.collateral, account.allCollaterals,
                 account.debtShares, pool.openInterest, pool.totalDebtShares,
                 pool.totalAssets, pool.irParams, pool.timeDelta, args.decimals,
                 args.futureDeltaSeconds)
  /\ UNCHANGED <<pool, account, liquidity, args>>

Withdraw ==
  /\ op = "calculateMaxWithdrawAmount"
  /\ result.kind = "return"
  /\ op' = "withdraw"
  /\ args' = [args EXCEPT !.safeBefore = Collateralized]
  /\ account' = [account EXCEPT
                   !.collateral.amount = Sub(@, result.value),
                   !.allCollaterals[1].amount = Sub(@, result.value)]
  /\ UNCHANGED <<pool, liquidity, result>>

WithdrawNext == CallCalculateMaxWithdrawAmount \/ Withdraw

SpecWithdraw == WithdrawInit /\ [][WithdrawNext]_vars

\* C4: withdrawing the amount returned by calculateMaxWithdrawAmount never
\* leaves the position below its required collateralization: with debt, and
\* a borrow capacity that covered the projected debt before, the capacity of
\* the remaining collaterals still covers it.  (Stated for positive prices.)
C4_WithdrawKeepsCollateralization ==
  ( /\ op = "withdraw"
    /\ args.safeBefore
    /\ Lt(Zero, account.debtShares)
    /\ \A i \in 1..Len(account.allCollaterals) : Lt(Zero, account.allCollaterals[i].price) )
  => Collateralized

(***************************************************************************)
(* Borrowing: a borrower repeatedly asks how much it may borrow and then   *)
(* borrows at most that much; the loan raises its debt and drains the      *)
(* pool's free liquidity.                                                  *)
(***************************************************************************)
BorrowCollaterals ==
  { <<>>,
    << Collateral(<<2, 1>>, One, Q(1, 2), One, Q(1, 2)) >>,
    << Collateral(<<2, 1>>, <<2, 1>>, Q(1, 2), One, Q(1, 2)),
       Collateral(One, One, One, One, Q(1, 2)) >>,
    << Collateral(<<2, 1>>, One, Q(1, 2), One, Q(1, 2)),
       Collateral(One, One, undefined, One, Q(1, 2)) >>,
    << Collateral(<<2, 1>>, One, Zero, One, Q(1, 2)) >> }

BorrowInit ==
  /\ pool = NoPool
  /\ \E cs \in BorrowCollaterals :
       account = [debtShares |-> Zero, collateral |-> NoAccount.collateral,
                  allCollaterals |-> cs]
  /\ liquidity \in [freeLiquidity : Nat0(MaxLiquidity), reserveBalance : Nat0(MaxLiquidity),
                    currentDebt : Nat0(MaxDebt)]
  /\ Le(liquidity.reserveBalance, liquidity.freeLiquidity)
  /\ LET capacity == calculateBorrowCapacity(account.allCollaterals)
     IN  capacity.kind = "return" => Le(liquidity.currentDebt, capacity.value)
  /\ args = [borrows |-> 0]
  /\ op = "init"
  /\ result = None

CallUserAvailableToBorrow ==
  /\ op # "userAvailableToBorrow"
  /\ op' = "userAvailableToBorrow"
  /\ result' = userAvailableToBorrow(account.allCollaterals, liquidity.freeLiquidity,
                                     liquidity.reserveBalance, liquidity.currentDebt)
  /\ UNCHANGED <<pool, account, liquidity, args>>

\* borrow a part of, or all of, the amount just reported as available
Borrow ==
  /\ op = "userAvailableToBorrow"
  /\ result.kind = "return"
  /\ \E amt \in {Q(1, 2), One, result.value} :
       /\ Lt(Zero, amt)
       /\ Le(amt, result.value)
       /\ liquidity' = [liquidity EXCEPT !.currentDebt = Add(@, amt),
                                         !.freeLiquidity = Sub(@, amt)]
  /\ op' = "borrow"
  /\ args' = [borrows |-> args.borrows + 1]
  /\ result' = None
  /\ UNCHANGED <<pool, account>>

BorrowNext == CallUserAvailableToBorrow \/ Borrow

SpecBorrow == BorrowInit /\ [][BorrowNext]_vars

\* C5: userAvailableToBorrow is min(max(freeLiquidity - reserveBalance, 0),
\* max(borrowCapacity - currentDebt, 0)) wherever the borrow capacity is
\* defined, so any sequence of borrows of at most that amount keeps
\* currentDebt <= borrowCapacity and freeLiquidity >= reserveBalance.
C5_BorrowWithinLimits ==
  LET capacity == calculateBorrowCapacity(account.allCollaterals)
      free == Sub(liquidity.freeLiquidity, liquidity.reserveBalance)
      room == Sub(capacity.value, liquidity.currentDebt)
  IN  /\ (op = "userAvailableToBorrow" /\ capacity.kind = "return")
           => /\ result.kind = "return"
              /\ result.value = MathMin(IF Lt(free, Zero) THEN Zero ELSE free,
                                        IF Lt(room, Zero) THEN Zero ELSE room)
      /\ capacity.kind = "return" => Le(liquidity.currentDebt, capacity.value)
      /\ Le(liquidity.reserveBalance, liquidity.freeLiquidity)

\* two loans were taken and the debt has reached the borrow capacity
C5_Witness ==
  /\ op = "borrow"
  /\ args.borrows >= 2
  /\ Eq(liquidity.currentDebt, calculateBorrowCapacity(account.allCollaterals).value)
  /\ Lt(liquidity.reserveBalance, liquidity.freeLiquidity)

(***************************************************************************)
(* Share accounting and compounding: an amount is converted to shares and  *)
(* back against one pool snapshot, or its due amount and accrued interest  *)
(* are computed one after the other.                                       *)
(***************************************************************************)
SharesInit ==
  /\ pool \in [openInterest : Nat0(2), totalAssets : {Zero, <<2, 1>>, <<4, 1>>},
               totalDebtShares : {Zero, <<3, 1>>}, totalShares : {Zero, <<3, 1>>},
               protocolReservePercentage : {Zero, Q(1, 2), One}, irParams : IrParamSet,
               timeDelta : 0..MaxDelta]
  /\ account = NoAccount
  /\ liquidity = NoLiquidity
  /\ args \in [amount : Nat0(MaxAmount), shares : {Zero}, due : {Zero}]
  /\ op = "init"
  /\ result = None

CallConvertLpAssetsToShares ==
  /\ op = "init"
  /\ op' = "convertLpAssetsToShares"
  /\ result' = Return(convertLpAssetsToShares(args.amount, pool.totalShares,
                 pool.totalAssets, pool.openInterest, pool.protocolReservePercentage,
                 pool.irParams, pool.timeDelta))
  /\ UNCHANGED <<pool, account, liquidity, args>>

CallConvertLpSharesToAssets ==
  /\ op = "convertLpAssetsToShares"
  /\ op' = "convertLpSharesToAssets"
  /\ args' = [args EXCEPT !.shares = result.value]
  /\ result' = Return(convertLpSharesToAssets(result.value, pool.totalShares,
                 pool.totalAssets, pool.openInterest, pool.protocolReservePercentage,
                 pool.irParams, pool.timeDelta))
  /\ UNCHANGED <<pool, account, liquidity>>

CallConvertDebtAssetsToShares ==
  /\ op = "init"
  /\ op' = "convertDebtAssetsToShares"
  /\ result' = Return(convertDebtAssetsToShares(args.amount, pool.totalDebtShares,
                 pool.totalAssets, pool.openInterest, pool.protocolReservePercentage,
                 pool.irParams, pool.timeDelta))
  /\ UNCHANGED <<pool, account, liquidity, args>>

CallConvertDebtSharesToAssets ==
  /\ op = "convertDebtAssetsToShares"
  /\ op' = "convertDebtSharesToAssets"
  /\ args' = [args EXCEPT !.shares = result.value]
  /\ result' = Return(convertDebtSharesToAssets(result.value, pool.openInterest,
                 pool.totalDebtShares, pool.totalAssets, pool.irParams, pool.timeDelta))
  /\ UNCHANGED <<pool, account, liquidity>>

CallCalculateDueInterest ==
  /\ op = "init"
  /\ op' = "calculateDueInterest"
  /\ result' = Return(calculateDueInterest(args.amount, pool.openInterest,
                 pool.totalAssets, pool.irParams, pool.timeDelta))
  /\ UNCHANGED <<pool, account, liquidity, args>>

CallCompoundedInterest ==
  /\ op = "calculateDueInterest"
  /\ op' = "compoundedInterest"
  /\ args' = [args EXCEPT !.due = result.value]
  /\ result' = Return(compoundedInterest(args.amount, pool.openInterest,
                 pool.totalAssets, pool.irParams, pool.timeDelta))
  /\ UNCHANGED <<pool, account, liquidity>>

SharesNext ==
  \/ CallConvertLpAssetsToShares
  \/ CallConvertLpSharesToAssets
  \/ CallConvertDebtAssetsToShares
  \/ CallConvertDebtSharesToAssets
  \/ CallCalculateDueInterest
  \/ CallCompoundedInterest

SpecShares == SharesInit /\ [][SharesNext]_vars

\* the interest accrued by the loan book over timeDelta
PoolInterest ==
  compoundedInterest(pool.openInterest, pool.openInterest, pool.totalAssets,
                     pool.irParams, pool.timeDelta)

\* C6 as claimed: for any assets and any pool snapshot, converting to LP
\* shares and back with the same snapshot and timeDelta returns assets.
C6_LpRoundTripAnyPool ==
  op = "convertLpSharesToAssets" => Eq(result.value, args.amount)

\* C6 as amended: the LP round trip returns assets for every pool snapshot
\* with totalAssets > 0, totalShares > 0 and a reserve percentage in [0,1].
C6_LpRoundTrip ==
  ( /\ op = "convertLpSharesToAssets"
    /\ Lt(Zero, pool.totalAssets)
    /\ Lt(Zero, pool.totalShares)
    /\ Le(Zero, pool.protocolReservePercentage)
    /\ Le(pool.protocolReservePercentage, One) )
  => Eq(result.value, args.amount)

\* a round trip through a share price that interest has moved, part of the
\* interest going to the reserve
C6_Witness ==
  /\ op = "convertLpSharesToAssets"
  /\ Lt(Zero, args.amount)
  /\ Lt(Zero, PoolInterest)
  /\ pool.protocolReservePercentage = Q(1, 2)
  /\ pool.timeDelta > 0
  /\ args.shares # args.amount
  /\ Eq(result.value, args.amount)

\* C7 as claimed: for any debtAssets and any protocolReservePercentage in
\* [0,1], converting to debt shares and back with the same pool state and
\* the same dt returns debtAssets.  (Stated for pools with assets, loans and
\* shares, where neither conversion falls back to its zero-pool default.)
C7_DebtRoundTripAnyReserve ==
  ( /\ op = "convertDebtSharesToAssets"
    /\ Lt(Zero, pool.totalAssets)
    /\ Lt(Zero, pool.openInterest)
    /\ Lt(Zero, pool.totalDebtShares)
    /\ Le(Zero, pool.protocolReservePercentage)
    /\ Le(pool.protocolReservePercentage, One) )
  => Eq(result.value, args.amount)

\* C7 as amended: the debt round trip returns debtAssets for pools with
\* totalAssets > 0, openInterest > 0 and totalDebtShares > 0 when the reserve
\* percentage is 0 or no interest has accrued over dt.
C7_DebtRoundTrip ==
  ( /\ op = "convertDebtSharesToAssets"
    /\ Lt(Zero, pool.totalAssets)
    /\ Lt(Zero, pool.openInterest)
    /\ Lt(Zero, pool.totalDebtShares)
    /\ (pool.protocolReservePercentage = Zero \/ PoolInterest = Zero) )
  => Eq(result.value, args.amount)

\* a debt round trip over accrued interest with no reserve cut
C7_Witness ==
  /\ op = "convertDebtSharesToAssets"
  /\ Lt(Zero, args.amount)
  /\ Lt(Zero, PoolInterest)
  /\ pool.protocolReservePercentage = Zero
  /\ pool.timeDelta > 0
  /\ Lt(Zero, pool.totalDebtShares)
  /\ Eq(result.value, args.amount)

UrGrid == {Q(i, 4) : i \in 0..MaxUrSteps}

RateParamSet ==
  [urKink : {Zero, Q(1, 2), One}, baseIR : {Zero, Q(1, 10)},
   slope1 : {Q(-1, 2), Zero, Q(1, 2), <<2, 1>>},
   slope2 : {Q(-1, 2), Zero, Q(1, 2), <<2, 1>>}]

RateInit ==
  /\ \E ir \in RateParamSet : pool = [NoPool EXCEPT !.irParams = ir]
  /\ account = NoAccount
  /\ liquidity = NoLiquidity
  /\ args = [ur |-> Zero, prevUr |-> Zero, prevRate |-> NaN, calls |-> 0]
  /\ op = "init"
  /\ result = None

CallAnnualizedAPR ==
  /\ args.calls < 2
  /\ \E ur \in UrGrid :
       /\ args' = [ur |-> ur, prevUr |-> args.ur, prevRate |-> result.value,
                   calls |-> args.calls + 1]
       /\ result' = Return(annualizedAPR(ur, pool.irParams))
  /\ op' = "annualizedAPR"
  /\ UNCHANGED <<pool, account, liquidity>>

RateNext == CallAnnualizedAPR

SpecRate == RateInit /\ [][RateNext]_vars

\* C9: with slope1 >= 0 and slope2 >= 0 annualizedAPR is non-decreasing in
\* ur over all ur >= 0, also across the kink, where the second branch is
\* taken and evaluates to slope1 * urKink + baseIR.
C9_RateMonotone ==
  /\ ( /\ args.calls = 2
       /\ Le(Zero, pool.irParams.slope1)
       /\ Le(Zero, pool.irParams.slope2)
       /\ Le(args.prevUr, args.ur) )
     => Le(args.prevRate, result.value)
  /\ (op = "annualizedAPR" /\ args.ur = pool.irParams.urKink)
     => result.value = Add(Mul(pool.irParams.slope1, pool.irParams.urKink),
                           pool.irParams.baseIR)

\* two evaluations on either side of the kink of a rising curve
C9_Witness ==
  /\ args.calls = 2
  /\ Lt(Zero, pool.irParams.slope1)
  /\ Lt(Zero, pool.irParams.slope2)
  /\ Lt(args.prevUr, pool.irParams.urKink)
  /\ Lt(pool.irParams.urKink, args.ur)
  /\ Lt(args.prevRate, result.value)

(***************************************************************************)
(* modules/account: health and account level LTV thresholds.               *)
(***************************************************************************)
\* the reduce of calculateAccountHealth: the first collateral whose
\* liquidationLTV is falsy throws
RECURSIVE AccountHealthLoop(_, _, _)
AccountHealthLoop(collaterals, i, total) ==
  IF i > Len(collaterals) THEN Return(total)
  ELSE LET collateral == collaterals[i]
       IN  IF Falsy(collateral.liquidationLTV)
           THEN Throw("LiquidationLTV is not defined")
           ELSE AccountHealthLoop(collaterals, i + 1,
                  Add(total, Mul(Mul(collateral.amount, collateral.price),
                                 collateral.liquidationLTV)))

\* mutant: the division is made without the check of the debt
calculateAccountHealth_NoDebtCheck(collaterals, currentDebt) ==
  LET totalCollateralValue == AccountHealthLoop(collaterals, 1, Zero)
  IN  IF totalCollateralValue.kind = "throw" THEN totalCollateralValue
      ELSE Return(Div(totalCollateralValue.value, currentDebt))

calculateAccountHealth(collaterals, currentDebt) ==
  LET totalCollateralValue == AccountHealthLoop(collaterals, 1, Zero)
  IN  IF totalCollateralValue.kind = "throw" THEN totalCollateralValue
      ELSE IF currentDebt = Zero THEN Throw("Current debt cannot be zero")
      ELSE Return(Div(totalCollateralValue.value, currentDebt))

\* the reduce of calculateAccountMaxLTV: maxLTV !== undefined
RECURSIVE AccountMaxLTVLoop(_, _, _)
AccountMaxLTVLoop(collaterals, i, sum) ==
  IF i > Len(collaterals) THEN Return(sum)
  ELSE LET collateral == collaterals[i]
       IN  IF collateral.maxLTV # undefined
           THEN AccountMaxLTVLoop(collaterals, i + 1,
                  Add(sum, Mul(collateral.maxLTV,
                               Mul(collateral.amount, collateral.price))))
           ELSE Throw("MaxLTV is not defined for one or more collaterals")

calculateAccountMaxLTV(collaterals) ==
  LET totalCollateralValue == calculateTotalCollateralValue(collaterals)
      totalWeightedLTV == AccountMaxLTVLoop(collaterals, 1, Zero)
  IN  IF totalCollateralValue = Zero THEN Return(Zero)
      ELSE IF totalWeightedLTV.kind = "throw" THEN totalWeightedLTV
      ELSE Return(Div(totalWeightedLTV.value, totalCollateralValue))

\* the reduce of calculateAccountLiqLTV: !collateral.liquidationLTV
RECURSIVE AccountLiqLTVLoop(_, _, _)
AccountLiqLTVLoop(collaterals, i, total) ==
  IF i > Len(collaterals) THEN Return(total)
  ELSE LET collateral == collaterals[i]
           collateralValue == Mul(collateral.amount, collateral.price)
       IN  IF Falsy(collateral.liquidationLTV)
           THEN Throw("LiquidationLTV is not defined")
           ELSE AccountLiqLTVLoop(collaterals, i + 1,
                  Add(total, Mul(collateral.liquidationLTV, collateralValue)))

calculateAccountLiqLTV(collaterals) ==
  LET accountCollateralValue == calculateTotalCollateralValue(collaterals)
      totalWeightedLTV == AccountLiqLTVLoop(collaterals, 1, Zero)
  IN  IF accountCollateralValue = Zero THEN Return(Zero)
      ELSE IF totalWeightedLTV.kind = "throw" THEN totalWeightedLTV
      ELSE Return(Div(totalWeightedLTV.value, accountCollateralValue))

(***************************************************************************)
(* Account figures: one of the account functions is called on a list of up *)
(* to two collaterals whose ratio fields are absent, zero or a value.      *)
(***************************************************************************)
AccountCollaterals ==
  { Collateral(a, p, m, l, Q(1, 2)) :
      a \in Nat0(MaxAmount), p \in {One, <<2, 1>>}, m \in RatioFields, l \in RatioFields }

AccountLists ==
  {<<>>} \cup { <<c>> : c \in AccountCollaterals }
         \cup { <<c, d>> : c \in AccountCollaterals, d \in AccountCollaterals }

AccountInit ==
  /\ pool = NoPool
  /\ \E cs \in AccountLists :
       account = [debtShares |-> Zero, collateral |-> NoAccount.collateral,
                  allCollaterals |-> cs]
  /\ \E d \in Nat0(MaxDebt) : liquidity = [NoLiquidity EXCEPT !.currentDebt = d]
  /\ args = NoArgs
  /\ op = "init"
  /\ result = None

CallCalculateAccountHealth ==
  /\ op = "init"
  /\ op' = "calculateAccountHealth"
  /\ result' = calculateAccountHealth(account.allCollaterals, liquidity.currentDebt)
  /\ UNCHANGED <<pool, account, liquidity, args>>

CallCalculateAccountMaxLTV ==
  /\ op = "init"
  /\ op' = "calculateAccountMaxLTV"
  /\ result' = calculateAccountMaxLTV(account.allCollaterals)
  /\ UNCHANGED <<pool, account, liquidity, args>>

CallCalculateAccountLiqLTV ==
  /\ op = "init"
  /\ op' = "calculateAccountLiqLTV"
  /\ result' = calculateAccountLiqLTV(account.allCollaterals)
  /\ UNCHANGED <<pool, account, liquidity, args>>

CallCalculateBorrowCapacity ==
  /\ op = "init"
  /\ op' = "calculateBorrowCapacity"
  /\ result' = calculateBorrowCapacity(account.allCollaterals)
  /\ UNCHANGED <<pool, account, liquidity, args>>

AccountNext ==
  \/ CallCalculateAccountHealth
  \/ CallCalculateAccountMaxLTV
  \/ CallCalculateAccountLiqLTV
  \/ CallCalculateBorrowCapacity

SpecAccount == AccountInit /\ [][AccountNext]_vars

\* C11: calculateAccountHealth raises an error whenever currentDebt is 0,
\* on every collateral list, the empty list included: it returns no value
\* (no Infinity, no NaN, no sentinel).
C11_HealthThrowsOnZeroDebt ==
  (op = "calculateAccountHealth" /\ liquidity.currentDebt = Zero)
  => result.kind = "throw"

\* the zero-debt check itself fires: on the empty list, and on a list whose
\* collaterals all carry a liquidationLTV
C11_Witness ==
  /\ op = "calculateAccountHealth"
  /\ liquidity.currentDebt = Zero
  /\ Len(account.allCollaterals) = 0
  /\ result.error = "Current debt cannot be zero"

\* C12: calculateAccountMaxLTV raises an error whenever some collateral of
\* the list lacks maxLTV, and calculateAccountLiqLTV whenever some collateral
\* lacks liquidationLTV, whatever the amounts and prices of the list.
C12_ThrowsOnMissingRatio ==
  /\ ( /\ op = "calculateAccountMaxLTV"
       /\ \E i \in 1..Len(account.allCollaterals) :
            account.allCollaterals[i].maxLTV = undefined )
     => result.kind = "throw"
  /\ ( /\ op = "calculateAccountLiqLTV"
       /\ \E i \in 1..Len(account.allCollaterals) :
            account.allCollaterals[i].liquidationLTV = undefined )
     => result.kind = "throw"

\* the sum of amount * price * maxLTV over the list
RECURSIVE CapacitySum(_, _)
CapacitySum(collaterals, i) ==
  IF i > Len(collaterals) THEN Zero
  ELSE Add(Mul(Mul(collaterals[i].amount, collaterals[i].price), collaterals[i].maxLTV),
           CapacitySum(collaterals, i + 1))

\* C13: calculateBorrowCapacity returns the sum of amount * price * maxLTV
\* (0 for the empty list) on every list whose collaterals all carry a maxLTV
\* in [0,1], and raises an error only when some collateral's maxLTV is absent.
C13_CapacityTotalOnPresentLTV ==
  op = "calculateBorrowCapacity" =>
    IF \A i \in 1..Len(account.allCollaterals) :
         account.allCollaterals[i].maxLTV # undefined
    THEN result.kind = "return"
         /\ result.value = CapacitySum(account.allCollaterals, 1)
    ELSE result.kind = "throw"

\* C14: with no debt the withdrawal is unconstrained: whenever debtShares is
\* 0, calculateMaxWithdrawAmount returns the full collateralToWithdraw.amount,
\* for every collateralToWithdraw and every allCollaterals list.
C14_NoDebtFullAmount ==
  (op = "calculateMaxWithdrawAmount" /\ account.debtShares = Zero)
  => (result.kind = "return" /\ result.value = account.collateral.amount)

\* the projected debt divided by the maxLTV of the collateral to withdraw
RequiredCollateralValue == Div(ProjectedDebt, account.collateral.maxLTV)

\* C15: a value returned by calculateMaxWithdrawAmount for a collateral with
\* amount >= 0 lies in [0, collateralToWithdraw.amount], and it is 0 whenever
\* the projected debt divided by collateralToWithdraw.maxLTV is at least the
\* total collateral value.
C15_WithdrawWithinAmount ==
  ( /\ op = "calculateMaxWithdrawAmount"
    /\ result.kind = "return"
    /\ Le(Zero, account.collateral.amount) )
  => /\ Le(Zero, result.value)
     /\ Le(result.value, account.collateral.amount)
     /\ Le(calculateTotalCollateralValue(account.allCollaterals), RequiredCollateralValue)
          => result.value = Zero

(***************************************************************************)
(* modules/lpRewards.                                                      *)
(***************************************************************************)
\* the for loop of earnedRewards, from index i (1-based: snapshots[i - 1] is
\* the previous snapshot, snapshots[i] the current one)
RECURSIVE EarnedRewardsLoop(_, _, _, _, _)
EarnedRewardsLoop(epoch, snapshots, epochDuration, i, totalEarnedRewards) ==
  IF i > Len(snapshots) THEN totalEarnedRewards
  ELSE LET prevSnapshot == snapshots[i - 1]
           snapshot == snapshots[i]
           percentOfEpoch == Div(Sub(snapshot.timestamp, prevSnapshot.timestamp), epochDuration)
           percentOfLpShares == Div(snapshot.userLpShares, snapshot.totalLpShares)
       IN  EarnedRewardsLoop(epoch, snapshots, epochDuration, i + 1,
             Add(totalEarnedRewards,
                 Mul(Mul(percentOfEpoch, percentOfLpShares), epoch.totalRewards)))

\* mutant: each interval is weighted by the ratio of its earlier snapshot
RECURSIVE EarnedRewardsLoop_Prev(_, _, _, _, _)
EarnedRewardsLoop_Prev(epoch, snapshots, epochDuration, i, totalEarnedRewards) ==
  IF i > Len(snapshots) THEN totalEarnedRewards
  ELSE LET prevSnapshot == snapshots[i - 1]
           snapshot == snapshots[i]
           percentOfEpoch == Div(Sub(snapshot.timestamp, prevSnapshot.timestamp), epochDuration)
           percentOfLpShares == Div(prevSnapshot.userLpShares, prevSnapshot.totalLpShares)
       IN  EarnedRewardsLoop_Prev(epoch, snapshots, epochDuration, i + 1,
             Add(totalEarnedRewards,
                 Mul(Mul(percentOfEpoch, percentOfLpShares), epoch.totalRewards)))

earnedRewards_PrevRatio(epoch, snapshots) ==
  IF Len(snapshots) < 2 THEN Throw("Insufficient data to compute rewards")
  ELSE LET epochDuration == Sub(epoch.endTimestamp, epoch.startTimestamp)
       IN  IF epochDuration = Zero THEN Throw("Invalid epoch duration")
           ELSE Return(EarnedRewardsLoop_Prev(epoch, snapshots, epochDuration, 2, Zero))

\* mutant: the epoch duration is checked before the number of snapshots
earnedRewards_DurationFirst(epoch, snapshots) ==
  LET epochDuration == Sub(epoch.endTimestamp, epoch.startTimestamp)
  IN  IF epochDuration = Zero THEN Throw("Invalid epoch duration")
      ELSE IF Len(snapshots) < 2 THEN Throw("Insufficient data to compute rewards")
      ELSE Return(EarnedRewardsLoop(epoch, snapshots, epochDuration, 2, Zero))

\* mutant: the time between two snapshots is not divided by the duration
earnedRewards_NoDuration(epoch, snapshots) ==
  IF Len(snapshots) < 2 THEN Throw("Insufficient data to compute rewards")
  ELSE LET epochDuration == Sub(epoch.endTimestamp, epoch.startTimestamp)
       IN  IF epochDuration = Zero THEN Throw("Invalid epoch duration")
           ELSE Return(EarnedRewardsLoop(epoch, snapshots, One, 2, Zero))

earnedRewards(epoch, snapshots) ==
  IF Len(snapshots) < 2 THEN Throw("Insufficient data to compute rewards")
  ELSE LET epochDuration == Sub(epoch.endTimestamp, epoch.startTimestamp)
       IN  IF epochDuration = Zero THEN Throw("Invalid epoch duration")
           ELSE Return(EarnedRewardsLoop(epoch, snapshots, epochDuration, 2, Zero))

(***************************************************************************)
(* Rewards: earnedRewards is called on an epoch and a list of snapshots in *)
(* time order.                                                             *)
(***************************************************************************)
Epochs ==
  [startTimestamp : Nat0(1), endTimestamp : Nat0(MaxTime), totalRewards : {One, <<2, 1>>}]

\* the user holds nothing, half or all of the LP shares
Snapshots ==
  [timestamp : Nat0(MaxTime), userLpShares : Nat0(2), totalLpShares : {<<2, 1>>}]

SnapshotLists ==
  { l \in UNION { [1..n -> Snapshots] : n \in 0..MaxSnapshots } :
      \A i \in 1..(Len(l) - 1) : Le(l[i].timestamp, l[i + 1].timestamp) }

RewardsInit ==
  /\ pool = NoPool
  /\ account = NoAccount
  /\ liquidity = NoLiquidity
  /\ args \in [epoch : Epochs, snapshots : SnapshotLists]
  /\ op = "init"
  /\ result = None

CallEarnedRewards ==
  /\ op = "init"
  /\ op' = "earnedRewards"
  /\ result' = earnedRewards(args.epoch, args.snapshots)
  /\ UNCHANGED <<pool, account, liquidity, args>>

RewardsNext == CallEarnedRewards

SpecRewards == RewardsInit /\ [][RewardsNext]_vars

\* the reward of the interval that ends at snapshot i, weighted by the share
\* ratio of that (later) snapshot
IntervalReward(i) ==
  LET later == args.snapshots[i]
      earlier == args.snapshots[i - 1]
      epochDuration == Sub(args.epoch.endTimestamp, args.epoch.startTimestamp)
  IN  Mul(args.epoch.totalRewards,
          Mul(Div(Sub(later.timestamp, earlier.timestamp), epochDuration),
              Div(later.userLpShares, later.totalLpShares)))

RECURSIVE SumOfIntervals(_)
SumOfIntervals(i) == IF i < 2 THEN Zero ELSE Add(SumOfIntervals(i - 1), IntervalReward(i))

C17_ErrorOrder ==
  op = "earnedRewards" =>
    /\ Len(args.snapshots) < 2
         => result.error = "Insufficient data to compute rewards"
    /\ result.error = "Invalid epoch duration"
         => (Len(args.snapshots) >= 2
             /\ args.epoch.endTimestamp = args.epoch.startTimestamp)

\* one snapshot and an epoch of zero duration: the snapshot count decides
C17_Witness ==
  /\ op = "earnedRewards"
  /\ Len(args.snapshots) = 1
  /\ args.epoch.endTimestamp = args.epoch.startTimestamp
  /\ result.error = "Insufficient data to compute rewards"

(***************************************************************************)
(* modules/dailyCaps.                                                      *)
(***************************************************************************)
\* mutant: the sum is returned without the cap
computeBucketValue_NoCap(capFactor, currentCapValue, totalLiquidity, timeDelta, resetTime) ==
  LET maxBucketValue == Mul(totalLiquidity, capFactor)
      refillAmount == IF Lt(resetTime, timeDelta) THEN maxBucketValue
                      ELSE Div(Mul(maxBucketValue, timeDelta), resetTime)
  IN  Add(refillAmount, currentCapValue)

\* mutant: the comparison of timeDelta with resetTime is reversed
computeBucketValue_Reversed(capFactor, currentCapValue, totalLiquidity, timeDelta, resetTime) ==
  LET maxBucketValue == Mul(totalLiquidity, capFactor)
      refillAmount == IF Lt(timeDelta, resetTime) THEN maxBucketValue
                      ELSE Div(Mul(maxBucketValue, timeDelta), resetTime)
  IN  MathMin(maxBucketValue, Add(refillAmount, currentCapValue))

computeBucketValue(capFactor, currentCapValue, totalLiquidity, timeDelta, resetTime) ==
  LET maxBucketValue == Mul(totalLiquidity, capFactor)
      refillAmount == IF Lt(resetTime, timeDelta) THEN maxBucketValue
                      ELSE Div(Mul(maxBucketValue, timeDelta), resetTime)
  IN  MathMin(maxBucketValue, Add(refillAmount, currentCapValue))

(***************************************************************************)
(* Bucket: computeBucketValue is called on a bucket that may be empty,     *)
(* partly filled, or above the capacity the liquidity now allows.          *)
(***************************************************************************)
BucketInit ==
  /\ pool = NoPool
  /\ account = NoAccount
  /\ liquidity = NoLiquidity
  /\ args \in [capFactor : {Zero, Q(1, 2), One},
               currentCapValue : Nat0(MaxLiquidity),
               totalLiquidity : Nat0(MaxLiquidity),
               timeDelta : Nat0(MaxDelta + 1),
               resetTime : Nat0(MaxDelta)]
  /\ op = "init"
  /\ result = None

CallComputeBucketValue ==
  /\ op = "init"
  /\ op' = "computeBucketValue"
  /\ result' = Return(computeBucketValue(args.capFactor, args.currentCapValue,
                        args.totalLiquidity, args.timeDelta, args.resetTime))
  /\ UNCHANGED <<pool, account, liquidity, args>>

BucketNext == CallComputeBucketValue

SpecBucket == BucketInit /\ [][BucketNext]_vars

MaxBucket == Mul(args.totalLiquidity, args.capFactor)

Refill ==
  IF Lt(args.resetTime, args.timeDelta) THEN MaxBucket
  ELSE Div(Mul(MaxBucket, args.timeDelta), args.resetTime)

\* C18: computeBucketValue returns min(maxBucket, currentValue + refill),
\* with maxBucket = totalLiquidity * capFactor and refill = maxBucket when
\* elapsed > resetWindow, else maxBucket * elapsed / resetWindow; the result
\* never exceeds maxBucket.
C18_BucketCapped ==
  op = "computeBucketValue" =>
    /\ result.value = MathMin(MaxBucket, Add(args.currentCapValue, Refill))
    /\ ~Lt(MaxBucket, result.value)
    /\ ~IsNaN(result.value) => Le(result.value, MaxBucket)

\* a partial refill that the cap cuts
C18_Witness ==
  /\ op = "computeBucketValue"
  /\ Lt(Zero, args.timeDelta)
  /\ Lt(args.timeDelta, args.resetTime)
  /\ Lt(MaxBucket, Add(args.currentCapValue, Refill))
  /\ Lt(args.currentCapValue, MaxBucket)
  /\ result.value = MaxBucket

\* C19 as claimed: for timeDelta = 0 and resetTime > 0 computeBucketValue
\* returns the current cap value it was given, for every capFactor,
\* currentCapValue and totalLiquidity.
C19_NoTimeUnchangedAny ==
  (op = "computeBucketValue" /\ args.timeDelta = Zero /\ Lt(Zero, args.resetTime))
  => result.value = args.currentCapValue

\* C19 as amended: for timeDelta = 0 and resetTime > 0 computeBucketValue
\* returns the current cap value when it is at most totalLiquidity *
\* capFactor, and totalLiquidity * capFactor otherwise.
C19_NoTimeUnchanged ==
  (op = "computeBucketValue" /\ args.timeDelta = Zero /\ Lt(Zero, args.resetTime))
  => result.value = IF Le(args.currentCapValue, MaxBucket)
                    THEN args.currentCapValue ELSE MaxBucket

\* no time has passed on a partly filled bucket
C19_Witness ==
  /\ op = "computeBucketValue"
  /\ args.timeDelta = Zero
  /\ Lt(Zero, args.resetTime)
  /\ Lt(Zero, args.currentCapValue)
  /\ Lt(args.currentCapValue, MaxBucket)
  /\ result.value = args.currentCapValue

(***************************************************************************)
(* modules/leverage.                                                       *)
(***************************************************************************)
\* mutant: the slippage is charged on the current collateral value, not on
\* the collateral bought with the leverage
leverageMaxSlippage_NoLeverage(collateralValue, leverage, slippage) ==
  IF Le(One, slippage) \/ Lt(slippage, Zero) THEN Throw("Invalid slippage")
  ELSE Return(Mul(collateralValue, Div(slippage, Sub(One, slippage))))

leverageMaxSlippage(collateralValue, leverage, slippage) ==
  IF Le(One, slippage) \/ Lt(slippage, Zero) THEN Throw("Invalid slippage")
  ELSE LET newCollateralValue == Mul(collateralValue, Sub(leverage, One))
       IN  Return(Mul(newCollateralValue, Div(slippage, Sub(One, slippage))))

(***************************************************************************)
(* Leverage: leverageMaxSlippage is evaluated at one target leverage after *)
(* another; the previous evaluation is kept for comparison.                *)
(***************************************************************************)
LeverageGrid == {Q(i, 2) : i \in 2..MaxLeverageSteps}

SlippageSet == {Q(-1, 4), Zero, Q(1, 4), Q(1, 2), Q(3, 4), One, Q(3, 2)}

LeverageInit ==
  /\ pool = NoPool
  /\ account = NoAccount
  /\ liquidity = NoLiquidity
  /\ args \in [collateralValue : Nat0(MaxAmount), slippage : SlippageSet,
               leverage : {One}, prevLeverage : {One}, prevLoss : {NaN}, calls : {0}]
  /\ op = "init"
  /\ result = None

CallLeverageMaxSlippage ==
  /\ args.calls < 2
  /\ \E leverage \in LeverageGrid :
       /\ args' = [args EXCEPT !.leverage = leverage, !.prevLeverage = args.leverage,
                               !.prevLoss = result.value, !.calls = args.calls + 1]
       /\ result' = leverageMaxSlippage(args.collateralValue, leverage, args.slippage)
  /\ op' = "leverageMaxSlippage"
  /\ UNCHANGED <<pool, account, liquidity>>

LeverageNext == CallLeverageMaxSlippage

SpecLeverage == LeverageInit /\ [][LeverageNext]_vars

RECURSIVE DropLoop(_, _, _)
DropLoop(collaterals, i, total) ==
  IF i > Len(collaterals) THEN Return(total)
  ELSE LET collateral == collaterals[i]
       IN  IF Falsy(collateral.liquidationLTV)
           THEN Throw("LiquidationLTV is not defined")
           ELSE DropLoop(collaterals, i + 1,
                  Add(total, Mul(Mul(collateral.amount, collateral.price),
                                 collateral.liquidationLTV)))

\* mutant: the ratio is taken upside down
calculateDrop_Inverted(collaterals, currentDebt) ==
  LET totalCollateralValue == DropLoop(collaterals, 1, Zero)
  IN  IF totalCollateralValue.kind = "throw" THEN totalCollateralValue
      ELSE IF totalCollateralValue.value = Zero THEN Return(Zero)
      ELSE Return(Sub(One, Div(totalCollateralValue.value, currentDebt)))

calculateDrop(collaterals, currentDebt) ==
  LET totalCollateralValue == DropLoop(collaterals, 1, Zero)
  IN  IF totalCollateralValue.kind = "throw" THEN totalCollateralValue
      ELSE IF totalCollateralValue.value = Zero THEN Return(Zero)
      ELSE Return(Sub(One, Div(currentDebt, totalCollateralValue.value)))

(***************************************************************************)
(* Pool figures: one function is called on a pool snapshot in which any of *)
(* totalAssets, openInterest, totalShares and totalDebtShares may be zero. *)
(***************************************************************************)
PoolLists ==
  { <<>>,
    << Collateral(One, <<2, 1>>, Q(1, 2), Q(1, 2), Q(1, 2)) >>,
    << Collateral(Zero, One, Q(1, 2), One, Q(1, 2)) >> }

PoolInit ==
  /\ pool \in [openInterest : Nat0(2), totalAssets : {Zero, <<2, 1>>, <<4, 1>>},
               totalDebtShares : {Zero, <<3, 1>>}, totalShares : {Zero, <<3, 1>>},
               protocolReservePercentage : {Zero, Q(1, 2), One}, irParams : IrParamSet,
               timeDelta : 0..MaxDelta]
  /\ \E cs \in PoolLists :
       account = [debtShares |-> Zero, collateral |-> NoAccount.collateral,
                  allCollaterals |-> cs]
  /\ \E d \in Nat0(1) : liquidity = [NoLiquidity EXCEPT !.currentDebt = d]
  /\ args \in [amount : Nat0(MaxAmount)]
  /\ op = "init"
  /\ result = None

PoolComputeUtilizationRate ==
  /\ op = "init"
  /\ op' = "computeUtilizationRate"
  /\ result' = Return(computeUtilizationRate(args.amount, pool.totalAssets))
  /\ UNCHANGED <<pool, account, liquidity, args>>

PoolConvertLpAssetsToShares ==
  /\ op = "init"
  /\ op' = "convertLpAssetsToShares"
  /\ result' = Return(convertLpAssetsToShares(args.amount, pool.totalShares,
                 pool.totalAssets, pool.openInterest, pool.protocolReservePercentage,
                 pool.irParams, pool.timeDelta))
  /\ UNCHANGED <<pool, account, liquidity, args>>

PoolConvertLpSharesToAssets ==
  /\ op = "init"
  /\ op' = "convertLpSharesToAssets"
  /\ result' = Return(convertLpSharesToAssets(args.amount, pool.totalShares,
                 pool.totalAssets, pool.openInterest, pool.protocolReservePercentage,
                 pool.irParams, pool.timeDelta))
  /\ UNCHANGED <<pool, account, liquidity, args>>

PoolConvertDebtAssetsToShares ==
  /\ op = "init"
  /\ op' = "convertDebtAssetsToShares"
  /\ result' = Return(convertDebtAssetsToShares(args.amount, pool.totalDebtShares,
                 pool.totalAssets, pool.openInterest, pool.protocolReservePercentage,
                 pool.irParams, pool.timeDelta))
  /\ UNCHANGED <<pool, account, liquidity, args>>

PoolConvertDebtSharesToAssets ==
  /\ op = "init"
  /\ op' = "convertDebtSharesToAssets"
  /\ result' = Return(convertDebtSharesToAssets(args.amount, pool.openInterest,
                 pool.totalDebtShares, pool.totalAssets, pool.irParams, pool.timeDelta))
  /\ UNCHANGED <<pool, account, liquidity, args>>

PoolCalculateDrop ==
  /\ op = "init"
  /\ op' = "calculateDrop"
  /\ result' = calculateDrop(account.allCollaterals, liquidity.currentDebt)
  /\ UNCHANGED <<pool, account, liquidity, args>>

PoolNext ==
  \/ PoolComputeUtilizationRate
  \/ PoolConvertLpAssetsToShares
  \/ PoolConvertLpSharesToAssets
  \/ PoolConvertDebtAssetsToShares
  \/ PoolConvertDebtSharesToAssets
  \/ PoolCalculateDrop

SpecPool == PoolInit /\ [][PoolNext]_vars

\* C21: the zero-pool defaults return 0 and raise nothing:
\* computeUtilizationRate(x, 0), convertLpAssetsToShares with totalAssets 0,
\* convertLpSharesToAssets with totalShares 0, convertDebtSharesToAssets with
\* totalDebtShares 0 and calculateDrop([], debt), whatever the other arguments.
C21_ZeroPoolDefaults ==
  /\ (op = "computeUtilizationRate" /\ pool.totalAssets = Zero) => result = Return(Zero)
  /\ (op = "convertLpAssetsToShares" /\ pool.totalAssets = Zero) => result = Return(Zero)
  /\ (op = "convertLpSharesToAssets" /\ pool.totalShares = Zero) => result = Return(Zero)
  /\ (op = "convertDebtSharesToAssets" /\ pool.totalDebtShares = Zero)
       => result = Return(Zero)
  /\ (op = "calculateDrop" /\ account.allCollaterals = <<>>) => result = Return(Zero)

\* a positive open interest over a pool without assets
C21_Witness ==
  /\ op = "computeUtilizationRate"
  /\ pool.totalAssets = Zero
  /\ Lt(Zero, args.amount)
  /\ result = Return(Zero)

\* C22: the four share conversions never divide by zero: on non-negative
\* arguments they return a defined (finite) number in every combination of
\* zero and non-zero totalAssets, openInterest, totalShares, totalDebtShares.
C22_ConversionsTotal ==
  op \in {"convertDebtAssetsToShares", "convertDebtSharesToAssets",
          "convertLpAssetsToShares", "convertLpSharesToAssets"}
  => (result.kind = "return" /\ IsFinite(result.value))

(***************************************************************************)
(* Liquidation at rising utilization: liquidatorMaxRepayAmount is called   *)
(* on the same position at one openInterest after another; the previous    *)
(* evaluation is kept for comparison.                                      *)
(***************************************************************************)
UtilInit ==
  /\ pool \in [openInterest : {One}, totalAssets : {<<4, 1>>},
               totalDebtShares : {Zero, <<2, 1>>}, totalShares : {Zero},
               protocolReservePercentage : {Zero}, irParams : IrParamSet,
               timeDelta : 0..MaxDelta]
  /\ \E c \in LiqTargets : \E ds \in Nat0(MaxShares) : \E l \in {<<c>>, <<c, LiqOther>>} :
       account = [debtShares |-> ds, collateral |-> c, allCollaterals |-> l]
  /\ liquidity = NoLiquidity
  /\ args = [prevOpenInterest |-> Zero, prevResult |-> None, calls |-> 0]
  /\ op = "init"
  /\ result = None

CallAtOpenInterest ==
  /\ args.calls < 2
  /\ \E openInterest \in Nat0(3) \ {Zero} :
       /\ pool' = [pool EXCEPT !.openInterest = openInterest]
       /\ result' = liquidatorMaxRepayAmount(account.debtShares, openInterest,
                      pool.totalDebtShares, pool.totalAssets, pool.irParams,
                      pool.timeDelta, account.collateral, account.allCollaterals)
  /\ args' = [prevOpenInterest |-> pool.openInterest, prevResult |-> result,
              calls |-> args.calls + 1]
  /\ op' = "liquidatorMaxRepayAmount"
  /\ UNCHANGED <<account, liquidity>>

UtilNext == CallAtOpenInterest

SpecUtil == UtilInit /\ [][UtilNext]_vars

\* two results of the same position at a lower and then a higher openInterest
RisingOpenInterest ==
  /\ args.calls = 2
  /\ args.prevResult.kind = "return"
  /\ result.kind = "return"
  /\ Lt(args.prevOpenInterest, pool.openInterest)

Bitcoin(price) == Collateral(Q(1, 25), price, undefined, Q(78, 100), Q(1, 10))

Ethereum(price) == Collateral(Q(83, 250), price, undefined, Q(7, 10), Q(12, 100))

ScenarioInit ==
  /\ pool = [NoPool EXCEPT !.openInterest = <<1014, 1>>, !.totalDebtShares = <<1014, 1>>,
                           !.totalAssets = <<2028, 1>>]
  /\ account = [debtShares |-> <<1014, 1>>, collateral |-> Ethereum(<<2000, 1>>),
                allCollaterals |-> << Bitcoin(<<25000, 1>>), Ethereum(<<2000, 1>>) >>]
  /\ liquidity = NoLiquidity
  /\ args = [btcDrops |-> 0, ethDrops |-> 0]
  /\ op = "init"
  /\ result = None

\* the ETH price falls by 100
EthPriceDrop ==
  /\ args.ethDrops < MaxDrops
  /\ args' = [args EXCEPT !.ethDrops = @ + 1]
  /\ account' = [account EXCEPT
       !.allCollaterals[2].price = Sub(@, <<100, 1>>),
       !.collateral = [account.allCollaterals[2] EXCEPT !.price = Sub(@, <<100, 1>>)]]
  /\ op' = "priceDrop"
  /\ result' = None
  /\ UNCHANGED <<pool, liquidity>>

\* the BTC price falls by 1000
BtcPriceDrop ==
  /\ args.btcDrops < MaxDrops
  /\ args' = [args EXCEPT !.btcDrops = @ + 1]
  /\ account' = [account EXCEPT
       !.allCollaterals[1].price = Sub(@, <<1000, 1>>),
       !.collateral = account.allCollaterals[2]]
  /\ op' = "priceDrop"
  /\ result' = None
  /\ UNCHANGED <<pool, liquidity>>

ScenarioLiquidate ==
  /\ op \in {"init", "priceDrop"}
  /\ \E i \in 1..2 :
       /\ account' = [account EXCEPT !.collateral = account.allCollaterals[i]]
       /\ result' = liquidatorMaxRepayAmount(account.debtShares, pool.openInterest,
                      pool.totalDebtShares, pool.totalAssets, pool.irParams,
                      pool.timeDelta, account.allCollaterals[i], account.allCollaterals)
  /\ op' = "liquidatorMaxRepayAmount"
  /\ UNCHANGED <<pool, liquidity, args>>

ScenarioNext == EthPriceDrop \/ BtcPriceDrop \/ ScenarioLiquidate

SpecScenario == ScenarioInit /\ [][ScenarioNext]_vars

\* the documented moment: BTC worth 1000, ETH at 1500 (worth 498), and the
\* liquidator has sized a repayment against the ETH collateral
EthAt1500 ==
  /\ op = "liquidatorMaxRepayAmount"
  /\ account.allCollaterals[1].price = <<25000, 1>>
  /\ account.allCollaterals[2].price = <<1500, 1>>
  /\ account.collateral = account.allCollaterals[2]

stakersRewardRate(sr, params) ==
  IF Lt(sr, params.stakedPercentageKink)
  THEN Add(Mul(params.slope1, sr), params.baseRewardRate)
  ELSE Add(Add(Mul(params.slope2, Sub(sr, params.stakedPercentageKink)),
               Mul(params.slope1, params.stakedPercentageKink)),
           params.baseRewardRate)

\* lpAPR of calculateLpAPY
LpAPR(ur, irParams, protocolReservePercentage) ==
  Mul(Mul(annualizedAPR(ur, irParams), Sub(One, protocolReservePercentage)), ur)

\* lpAPR of lpApyWithStaking
LpAPRWithStaking(ur, irParams, protocolReservePercentage, sr, smParams) ==
  LET rewardRate == stakersRewardRate(sr, smParams)
  IN  Mul(Mul(annualizedAPR(ur, irParams),
              Sub(Sub(One, rewardRate), protocolReservePercentage)), ur)

\* mutant: the stakers' own reward term is left out
StakerAPR_NoReward(ur, irParams, protocolReservePercentage, sr, smParams) ==
  LET rewardRate == stakersRewardRate(sr, smParams)
  IN  Mul(Mul(annualizedAPR(ur, irParams),
              Sub(Sub(One, rewardRate), protocolReservePercentage)), ur)

\* lpAPR of stakerAPY
StakerAPR(ur, irParams, protocolReservePercentage, sr, smParams) ==
  LET rewardRate == stakersRewardRate(sr, smParams)
  IN  Add(Mul(Mul(annualizedAPR(ur, irParams),
                  Sub(Sub(One, rewardRate), protocolReservePercentage)), ur),
          Mul(Mul(rewardRate, sr), ur))

(***************************************************************************)
(* Staking yields: the three yields of one pool are computed, in any       *)
(* order, for the same utilization and staking rate.                       *)
(***************************************************************************)
StakingIrParams ==
  { [urKink |-> Q(1, 2), baseIR |-> Zero, slope1 |-> Zero, slope2 |-> Zero],
    [urKink |-> Q(4, 5), baseIR |-> Q(1, 50), slope1 |-> Q(1, 10), slope2 |-> Q(1, 5)],
    [urKink |-> Q(1, 2), baseIR |-> Q(1, 2), slope1 |-> One, slope2 |-> <<2, 1>>] }

SafetyModuleParams ==
  { [stakedPercentageKink |-> Q(3, 4), slope1 |-> Q(-1, 100), slope2 |-> Q(-15, 100),
     baseRewardRate |-> Q(1, 10)],
    [stakedPercentageKink |-> Q(1, 2), slope1 |-> Q(1, 10), slope2 |-> Q(1, 5),
     baseRewardRate |-> Zero] }

StakingInit ==
  /\ \E ir \in StakingIrParams : \E r \in {Zero, Q(1, 10)} :
       pool = [NoPool EXCEPT !.irParams = ir, !.protocolReservePercentage = r]
  /\ account = NoAccount
  /\ liquidity = NoLiquidity
  /\ args \in [ur : {Q(i, 4) : i \in 0..4}, sr : {Zero, Q(1, 20), Q(1, 2), One},
               smParams : SafetyModuleParams,
               lp : {None}, staker : {None}, withStaking : {None}]
  /\ op = "init"
  /\ result = None

\* the yields are compared by the rate they compound; for ur == 0 each is 0
CallCalculateLpAPY ==
  /\ args.lp = None
  /\ result' = Return(IF args.ur = Zero THEN Zero
                      ELSE LpAPR(args.ur, pool.irParams, pool.protocolReservePercentage))
  /\ args' = [args EXCEPT !.lp = result']
  /\ op' = "calculateLpAPY"
  /\ UNCHANGED <<pool, account, liquidity>>

CallLpApyWithStaking ==
  /\ args.withStaking = None
  /\ result' = Return(IF args.ur = Zero THEN Zero
                      ELSE LpAPRWithStaking(args.ur, pool.irParams,
                             pool.protocolReservePercentage, args.sr, args.smParams))
  /\ args' = [args EXCEPT !.withStaking = result']
  /\ op' = "lpApyWithStaking"
  /\ UNCHANGED <<pool, account, liquidity>>

CallStakerAPY ==
  /\ args.staker = None
  /\ result' = Return(IF args.ur = Zero THEN Zero
                      ELSE StakerAPR(args.ur, pool.irParams,
                             pool.protocolReservePercentage, args.sr, args.smParams))
  /\ args' = [args EXCEPT !.staker = result']
  /\ op' = "stakerAPY"
  /\ UNCHANGED <<pool, account, liquidity>>

StakingNext == CallCalculateLpAPY \/ CallLpApyWithStaking \/ CallStakerAPY

SpecStaking == StakingInit /\ [][StakingNext]_vars

\* the three yields of a pool with utilization, stake and a positive
\* stakers' reward rate
YieldsKnown ==
  /\ args.lp # None /\ args.staker # None /\ args.withStaking # None
  /\ Lt(Zero, args.ur)
  /\ Lt(Zero, args.sr)
  /\ Lt(Zero, stakersRewardRate(args.sr, args.smParams))

\* C25 as claimed: for every ur > 0, sr > 0 and positive stakers' reward
\* rate, the staker yield is strictly higher than the plain LP yield, which
\* is strictly higher than the LP yield with staking.
C25_StakerAboveLp ==
  YieldsKnown => /\ Lt(args.lp.value, args.staker.value)
                 /\ Lt(args.withStaking.value, args.lp.value)

\* C25 as amended: for ur > 0, sr > 0 and a positive stakers' reward rate,
\* the staker yield is strictly higher than the plain LP yield exactly when
\* the staking rate sr exceeds the borrow rate annualizedAPR(ur), and the
\* plain LP yield is strictly higher than the LP yield with staking exactly
\* when annualizedAPR(ur) is positive.
C25_YieldOrder ==
  YieldsKnown =>
    /\ Lt(args.lp.value, args.staker.value) <=> Lt(annualizedAPR(args.ur, pool.irParams), args.sr)
    /\ Lt(args.withStaking.value, args.lp.value)
         <=> Lt(Zero, annualizedAPR(args.ur, pool.irParams))

\* the tested case: half the shares staked, a borrow rate of 7%
C25_Witness ==
  /\ YieldsKnown
  /\ args.ur = Q(1, 2)
  /\ args.sr = Q(1, 2)
  /\ annualizedAPR(args.ur, pool.irParams) = Q(7, 100)
  /\ Lt(args.lp.value, args.staker.value)
  /\ Lt(args.withStaking.value, args.lp.value)

(***************************************************************************)
(* modules/leverage: absoluteMaxLeverage.                                  *)
(***************************************************************************)
\* mutant: the upper end of the range is not checked
absoluteMaxLeverage_NoUpper(maxLTV) ==
  IF Le(maxLTV, Zero) THEN Throw("Invalid maxLTV")
  ELSE Return(Div(One, Sub(One, maxLTV)))

absoluteMaxLeverage(maxLTV) ==
  IF Le(One, maxLTV) \/ Le(maxLTV, Zero) THEN Throw("Invalid maxLTV")
  ELSE Return(Div(One, Sub(One, maxLTV)))

(***************************************************************************)
(* Maximum leverage: absoluteMaxLeverage is called on a maxLTV below,      *)
(* inside or above the interval (0,1).                                     *)
(***************************************************************************)
MaxLeverageInit ==
  /\ pool = NoPool
  /\ account = NoAccount
  /\ liquidity = NoLiquidity
  /\ args \in [maxLTV : {Q(i, 20) : i \in (-MaxLtvSteps)..MaxLtvSteps}]
  /\ op = "init"
  /\ result = None

CallAbsoluteMaxLeverage ==
  /\ op = "init"
  /\ op' = "absoluteMaxLeverage"
  /\ result' = absoluteMaxLeverage(args.maxLTV)
  /\ UNCHANGED <<pool, account, liquidity, args>>

MaxLeverageNext == CallAbsoluteMaxLeverage

SpecMaxLeverage == MaxLeverageInit /\ [][MaxLeverageNext]_vars

\* C26: absoluteMaxLeverage raises an error exactly when maxLTV <= 0 or
\* maxLTV >= 1; for maxLTV in (0,1) it returns 1 / (1 - maxLTV), a
\* multiplier strictly greater than 1.
C26_MaxLeverageDomain ==
  op = "absoluteMaxLeverage" =>
    IF Lt(Zero, args.maxLTV) /\ Lt(args.maxLTV, One)
    THEN /\ result.kind = "return"
         /\ Mul(result.value, Sub(One, args.maxLTV)) = One
         /\ Lt(One, result.value)
    ELSE result.kind = "throw"

\* a maxLTV of 0.8 gives a leverage of 5
C26_Witness ==
  /\ op = "absoluteMaxLeverage"
  /\ args.maxLTV = Q(4, 5)
  /\ result = Return(<<5, 1>>)

(***************************************************************************)
(* modules/account: calculateLiquidationPoint.                             *)
(***************************************************************************)
calculateLiquidationPoint(accountLiqLTV, debtShares, openInterest, totalDebtShares, totalAssets, irParams, timeDelta) ==
  LET accountDebt == convertDebtSharesToAssets(debtShares, openInterest, totalDebtShares,
                                               totalAssets, irParams, timeDelta)
  IN  IF accountLiqLTV # Zero THEN Div(accountDebt, accountLiqLTV) ELSE Zero

(***************************************************************************)
(* Liquidation indicators: the health, the drop, the account liquidation   *)
(* LTV and the liquidation point of one position are computed one after    *)
(* the other, each on the position's current debt.                         *)
(***************************************************************************)
IndicatorCollaterals ==
  { Collateral(a, One, Q(1, 2), l, Q(1, 2)) : a \in Nat0(MaxAmount), l \in RatioFields }

IndicatorLists ==
  {<<>>} \cup { <<c>> : c \in IndicatorCollaterals }
         \cup { <<c, d>> : c \in IndicatorCollaterals, d \in IndicatorCollaterals }

IndicatorInit ==
  /\ pool \in [openInterest : {One, <<2, 1>>}, totalAssets : {<<4, 1>>},
               totalDebtShares : {<<2, 1>>}, totalShares : {Zero},
               protocolReservePercentage : {Zero}, irParams : IrParamSet,
               timeDelta : 0..MaxDelta]
  /\ \E cs \in IndicatorLists : \E ds \in Nat0(MaxShares) :
       account = [debtShares |-> ds, collateral |-> NoAccount.collateral,
                  allCollaterals |-> cs]
  /\ liquidity = NoLiquidity
  /\ args = [health |-> None, drop |-> None, liqLTV |-> None, point |-> None]
  /\ op = "init"
  /\ result = None

IndicatorHealth ==
  /\ op = "init"
  /\ op' = "calculateAccountHealth"
  /\ result' = calculateAccountHealth(account.allCollaterals, DebtAssets)
  /\ args' = [args EXCEPT !.health = result']
  /\ UNCHANGED <<pool, account, liquidity>>

IndicatorDrop ==
  /\ op = "calculateAccountHealth"
  /\ op' = "calculateDrop"
  /\ result' = calculateDrop(account.allCollaterals, DebtAssets)
  /\ args' = [args EXCEPT !.drop = result']
  /\ UNCHANGED <<pool, account, liquidity>>

IndicatorLiqLTV ==
  /\ op = "calculateDrop"
  /\ op' = "calculateAccountLiqLTV"
  /\ result' = calculateAccountLiqLTV(account.allCollaterals)
  /\ args' = [args EXCEPT !.liqLTV = result']
  /\ UNCHANGED <<pool, account, liquidity>>

IndicatorLiquidationPoint ==
  /\ op = "calculateAccountLiqLTV"
  /\ result.kind = "return"
  /\ op' = "calculateLiquidationPoint"
  /\ result' = Return(calculateLiquidationPoint(result.value, account.debtShares,
                        pool.openInterest, pool.totalDebtShares, pool.totalAssets,
                        pool.irParams, pool.timeDelta))
  /\ args' = [args EXCEPT !.point = result']
  /\ UNCHANGED <<pool, account, liquidity>>

IndicatorNext ==
  IndicatorHealth \/ IndicatorDrop \/ IndicatorLiqLTV \/ IndicatorLiquidationPoint

SpecIndicators == IndicatorInit /\ [][IndicatorNext]_vars

\* every indicator of the position has been asked for
IndicatorsDone ==
  \/ op = "calculateLiquidationPoint"
  \/ (op = "calculateAccountLiqLTV" /\ result.kind = "throw")

\* the secured value, summed over the liquidationLTV values that are present
RECURSIVE SecuredSum(_, _)
SecuredSum(collaterals, i) ==
  IF i > Len(collaterals) THEN Zero
  ELSE Add(Mul(Mul(collaterals[i].amount, collaterals[i].price),
               collaterals[i].liquidationLTV),
           SecuredSum(collaterals, i + 1))

\* C27: for a collateral list with positive secured value and a debt > 0
\* the liquidation indicators agree: calculateAccountHealth < 1 if and only
\* if calculateDrop < 0, if and only if the total collateral value is below
\* the liquidation point debt / calculateAccountLiqLTV, if and only if the
\* numerator debt - total secured value of liquidatorMaxRepayAmount is
\* positive.  The four either all raise an error or all return.
C27_IndicatorsAgree ==
  ( /\ IndicatorsDone
    /\ \A i \in 1..Len(account.allCollaterals) :
         account.allCollaterals[i].liquidationLTV # undefined
    /\ Lt(Zero, SecuredSum(account.allCollaterals, 1))
    /\ Lt(Zero, DebtAssets) )
  => LET securedValue == TotalSecuredValue(account.allCollaterals, 1, Zero)
         unhealthy == Lt(args.health.value, One)
     IN  /\ (args.health.kind = "throw") <=> (args.drop.kind = "throw")
         /\ (args.health.kind = "throw") <=> (args.liqLTV.kind = "throw")
         /\ (args.health.kind = "throw") <=> (securedValue.kind = "throw")
         /\ args.health.kind = "return" =>
              /\ unhealthy <=> Lt(args.drop.value, Zero)
              /\ unhealthy <=> Lt(calculateTotalCollateralValue(account.allCollaterals),
                                  args.point.value)
              /\ unhealthy <=> Lt(Zero, Sub(DebtAssets, securedValue.value))

\* two collaterals with different liquidationLTV and a debt above the
\* secured value: every indicator signals the liquidation
C27_Witness ==
  /\ op = "calculateLiquidationPoint"
  /\ Len(account.allCollaterals) = 2
  /\ account.allCollaterals[1].liquidationLTV # account.allCollaterals[2].liquidationLTV
  /\ Lt(Zero, SecuredSum(account.allCollaterals, 1))
  /\ Lt(args.health.value, One)
  /\ Lt(args.drop.value, Zero)
  /\ Lt(calculateTotalCollateralValue(account.allCollaterals), args.point.value)

(***************************************************************************)
(* Refilling a bucket twice: the value returned by computeBucketValue is   *)
(* stored and passed back as currentCapValue after a further timeDelta,    *)
(* next to the single call over the whole elapsed time.                    *)
(***************************************************************************)
RefillInit ==
  /\ pool = NoPool
  /\ account = NoAccount
  /\ liquidity = NoLiquidity
  /\ args \in [capFactor : {Zero, Q(1, 2), One}, currentCapValue : Nat0(MaxLiquidity),
               totalLiquidity : Nat0(MaxLiquidity), resetTime : Nat0(MaxDelta),
               t1 : Nat0(MaxDelta + 1), t2 : Nat0(MaxDelta + 1),
               first : {None}, second : {None}, once : {None}]
  /\ op = "init"
  /\ result = None

RefillFirst ==
  /\ args.first = None
  /\ op' = "first"
  /\ result' = Return(computeBucketValue(args.capFactor, args.currentCapValue,
                        args.totalLiquidity, args.t1, args.resetTime))
  /\ args' = [args EXCEPT !.first = result']
  /\ UNCHANGED <<pool, account, liquidity>>

RefillSecond ==
  /\ args.first # None
  /\ args.second = None
  /\ op' = "second"
  /\ result' = Return(computeBucketValue(args.capFactor, args.first.value,
                        args.totalLiquidity, args.t2, args.resetTime))
  /\ args' = [args EXCEPT !.second = result']
  /\ UNCHANGED <<pool, account, liquidity>>

RefillOnce ==
  /\ args.once = None
  /\ op' = "once"
  /\ result' = Return(computeBucketValue(args.capFactor, args.currentCapValue,
                        args.totalLiquidity, Add(args.t1, args.t2), args.resetTime))
  /\ args' = [args EXCEPT !.once = result']
  /\ UNCHANGED <<pool, account, liquidity>>

RefillNext == RefillFirst \/ RefillSecond \/ RefillOnce

SpecRefill == RefillInit /\ [][RefillNext]_vars

BudgetCase ==
  /\ op = "earnedRewards"
  /\ Lt(args.epoch.startTimestamp, args.epoch.endTimestamp)
  /\ Le(Zero, args.epoch.totalRewards)
  /\ Len(args.snapshots) >= 2
  /\ \A i \in 1..Len(args.snapshots) :
       /\ Lt(Zero, args.snapshots[i].totalLpShares)
       /\ Le(Zero, args.snapshots[i].userLpShares)
       /\ Le(args.snapshots[i].userLpShares, args.snapshots[i].totalLpShares)

SnapshotsInEpoch ==
  \A i \in 1..Len(args.snapshots) :
    /\ Le(args.epoch.startTimestamp, args.snapshots[i].timestamp)
    /\ Le(args.snapshots[i].timestamp, args.epoch.endTimestamp)

WithinBudget ==
  /\ result.kind = "return"
  /\ Le(Zero, result.value)
  /\ Le(result.value, args.epoch.totalRewards)

\* C29 as stated: for an epoch with endTimestamp > startTimestamp and
\* totalRewards >= 0 and a list of at least 2 snapshots in ascending time
\* order with totalLpShares > 0 and 0 <= userLpShares <= totalLpShares,
\* earnedRewards returns a value in [0, epoch.totalRewards].
C29_WithinBudget == BudgetCase => WithinBudget

\* C29, amended: the same, for snapshots whose timestamps all lie within
\* [epoch.startTimestamp, epoch.endTimestamp]; snapshots taken outside the
\* epoch are weighted like the others and can exceed the budget.
C29_WithinBudgetInEpoch == (BudgetCase /\ SnapshotsInEpoch) => WithinBudget

\* three snapshots spanning the whole epoch, the user holding every share:
\* the whole budget is earned
C29_Witness ==
  /\ BudgetCase
  /\ SnapshotsInEpoch
  /\ Len(args.snapshots) = 3
  /\ Lt(args.snapshots[1].timestamp, args.snapshots[2].timestamp)
  /\ Lt(args.snapshots[2].timestamp, args.snapshots[3].timestamp)
  /\ result.kind = "return"
  /\ result.value = args.epoch.totalRewards

(***************************************************************************)
(* apy: the fixed-point interest path.  Its values are bigint, modelled as *)
(* integers; openInterest / totalAssets is the bigint division, which      *)
(* drops the fraction.                                                     *)
(***************************************************************************)
annualizedAPR12(ur, irParams) ==
  IF ur < irParams.urKink THEN irParams.slope1 * ur + irParams.baseIR
  ELSE irParams.slope2 * (ur - irParams.urKink) + irParams.slope1 * irParams.urKink
         + irParams.baseIR

computeUtilizationRate12(openInterest, totalAssets) ==
  IF totalAssets = 0 THEN 0 ELSE openInterest \div totalAssets

\* the first two statements of computeInterest: the annual rate that it
\* hands, with the principal and the elapsed seconds, to calcTotalInterest
computeInterestAnnualRate(openInterest, totalAssets, irParams) ==
  LET ur == computeUtilizationRate12(openInterest, totalAssets)
      annualRate == annualizedAPR12(ur, irParams)
  IN  annualRate

(***************************************************************************)
(* Interest: computeInterest is called for two pools that share the total  *)
(* assets and the rate parameters; the rate of the first call is kept.     *)
(***************************************************************************)
IrParams12 ==
  [urKink : 0..2, baseIR : 0..1, slope1 : 0..2, slope2 : 1..2]

InterestInit ==
  /\ pool = NoPool
  /\ account = NoAccount
  /\ liquidity = NoLiquidity
  /\ args \in [irParams : IrParams12, totalAssets : 0..MaxLiquidity,
               openInterest : {0}, prevOpenInterest : {0}, prevRate : {0}, calls : {0}]
  /\ op = "init"
  /\ result = None

CallComputeInterest ==
  /\ args.calls < 2
  /\ \E openInterest \in 0..MaxLiquidity :
       /\ op' = "computeInterest"
       /\ result' = Return(<<computeInterestAnnualRate(openInterest, args.totalAssets,
                                                       args.irParams), 1>>)
       /\ args' = [args EXCEPT !.openInterest = openInterest,
                               !.prevOpenInterest = args.openInterest,
                               !.prevRate = IF args.calls = 0 THEN 0 ELSE result.value[1],
                               !.calls = args.calls + 1]
  /\ UNCHANGED <<pool, account, liquidity>>

InterestNext == CallComputeInterest

SpecInterest == InterestInit /\ [][InterestNext]_vars

\* two pools with different utilization, both above 0 and below 100%
TwoUtilizations ==
  /\ args.calls = 2
  /\ 0 < args.openInterest /\ args.openInterest < args.totalAssets
  /\ 0 < args.prevOpenInterest /\ args.prevOpenInterest < args.totalAssets
  /\ args.openInterest # args.prevOpenInterest

\* C30: in computeInterest, for 0 < openInterest < totalAssets the annual
\* rate passed to the exponential is the kinked-curve rate at the real
\* utilization openInterest / totalAssets, so that with slope1 > 0 two pools
\* with different utilization below 100% are charged different rates.
C30_RateFollowsUtilization ==
  (TwoUtilizations /\ args.irParams.slope1 > 0) => result.value[1] # args.prevRate

====
